---- MODULE Spec2Model ----
(***************************************************************************)
(* Model of analysis/parse_behaviorspace.py: the parser of NetLogo         *)
(* BehaviorSpace "Spreadsheet" exports.                                    *)
(*                                                                         *)
(* A text cell is a sequence of one-character strings, a row a sequence of *)
(* cells, the RawTable a sequence of rows.  Offsets into a header are      *)
(* 0-based, as in the source; TLA+ sequences are 1-based, so position p of *)
(* the source is element p + 1 here.                                       *)
(***************************************************************************)
EXTENDS Integers, Sequences, FiniteSets, TLC

VARIABLES
    op,              \* the function under execution
    pc,              \* its position: "start", "blocks", "loop", "rows", "done", "failed"
    rows,            \* parse_final / parse_all_run_data: the RawTable read by _read_rows
    header,          \* local `header`
    values,          \* local `values` (of the row being cut into blocks)
    step_positions,  \* local `step_positions`
    block_size,      \* local `block_size`
    idx,             \* loop position: index into step_positions, or into rows
    block_header,    \* _parse_repeated_blocks: local `block_header` of the last iteration
    records,         \* local `records` / `out_records`: what DataFrame.from_records is given
    error,           \* message of the ValueError raised ("" when none)
    x,               \* _to_scalar: its argument
    scalar           \* _to_scalar: its return value

vars == <<op, pc, rows, header, values, step_positions, block_size, idx,
          block_header, records, error, x, scalar>>

(***************************************************************************)
(* Bounds of the model.                                                    *)
(***************************************************************************)
MaxLen == 3        \* longest cell text enumerated for _to_scalar
MaxHeader == 4     \* longest header enumerated (cells after the first)
MaxValues == 4     \* longest value row enumerated (cells after the first)
MaxRows == 4       \* longest RawTable enumerated from the row pool

Min(a, b) == IF a <= b THEN a ELSE b

\* All sequences over S of length at most n.
SeqsUpTo(S, n) == UNION {[1..k -> S] : k \in 0..n}

(***************************************************************************)
(* Text: str.strip, str.lower, `in`, float(), int().                       *)
(***************************************************************************)
Upper == <<"A","B","C","D","E","F","G","H","I","J","K","L","M",
           "N","O","P","Q","R","S","T","U","V","W","X","Y","Z">>
Lower == <<"a","b","c","d","e","f","g","h","i","j","k","l","m",
           "n","o","p","q","r","s","t","u","v","w","x","y","z">>
DigitChars == <<"0","1","2","3","4","5","6","7","8","9">>

IsSpace(c) == c \in {" ", "\t"}
IsDigit(c) == \E i \in 1..10 : DigitChars[i] = c
DigitVal(c) == (CHOOSE i \in 1..10 : DigitChars[i] = c) - 1

RECURSIVE lstrip(_)
lstrip(s) == IF s = <<>> THEN s
             ELSE IF IsSpace(Head(s)) THEN lstrip(Tail(s)) ELSE s

RECURSIVE rstrip(_)
rstrip(s) == IF s = <<>> THEN s
             ELSE IF IsSpace(s[Len(s)]) THEN rstrip(SubSeq(s, 1, Len(s) - 1)) ELSE s

strip(s) == rstrip(lstrip(s))

LowerChar(c) == IF \E i \in 1..26 : Upper[i] = c
                THEN Lower[CHOOSE i \in 1..26 : Upper[i] = c]
                ELSE c

lower(s) == [i \in 1..Len(s) |-> LowerChar(s[i])]

Contains(s, c) == \E i \in 1..Len(s) : s[i] = c

startswith(s, c) == s # <<>> /\ s[1] = c

\* Python's digitpart: digits, with single underscores allowed between digits.
IsDigitPart(s) ==
    /\ s # <<>>
    /\ IsDigit(s[1])
    /\ IsDigit(s[Len(s)])
    /\ \A i \in 1..Len(s) : IsDigit(s[i]) \/ s[i] = "_"
    /\ \A i \in 1..(Len(s) - 1) : ~(s[i] = "_" /\ s[i + 1] = "_")

RECURSIVE DigitsValue(_, _)
DigitsValue(s, acc) ==
    IF s = <<>> THEN acc
    ELSE IF Head(s) = "_" THEN DigitsValue(Tail(s), acc)
    ELSE DigitsValue(Tail(s), 10 * acc + DigitVal(Head(s)))

NumDigits(s) == Cardinality({i \in 1..Len(s) : IsDigit(s[i])})

HasSign(s) == s # <<>> /\ s[1] \in {"+", "-"}
Unsigned(s) == IF HasSign(s) THEN Tail(s) ELSE s
SignOf(s) == IF s # <<>> /\ s[1] = "-" THEN -1 ELSE 1

\* First position of a character of C in s, 0 when there is none.
FirstOf(s, C) == IF \E i \in 1..Len(s) : s[i] \in C
                 THEN CHOOSE i \in 1..Len(s) :
                        s[i] \in C /\ \A j \in 1..(i - 1) : s[j] \notin C
                 ELSE 0

\* A decimal m * 10^e in normal form: m carries no factor 10, and 0 is 0 * 10^0.
RECURSIVE Normal(_, _)
Normal(m, e) == IF m = 0 THEN [m |-> 0, e |-> 0]
                ELSE IF m % 10 = 0 THEN Normal(m \div 10, e + 1)
                ELSE [m |-> m, e |-> e]

NoneValue == [type |-> "NoneType"]
BoolValue(b) == [type |-> "bool", b |-> b]
IntValue(n) == [type |-> "int", n |-> n]
FloatValue(m, e) == [type |-> "float", d |-> Normal(m, e)]
FloatSpecial(w) == [type |-> "float", special |-> w]
StrValue(s) == [type |-> "str", s |-> s]
Raises == [type |-> "ValueError"]

\* int(s) for a stripped s: [sign] digitpart, base 10.
PyInt(s) ==
    IF IsDigitPart(Unsigned(s))
    THEN IntValue(SignOf(s) * DigitsValue(Unsigned(s), 0))
    ELSE Raises

\* float(s) for a stripped s: [sign] (inf | infinity | nan), or
\* [sign] (digitpart ["." [digitpart]] | "." digitpart) [(e|E) [sign] digitpart].
\* The value is kept as the exact decimal the text denotes; the rounding to a
\* binary double, a function of that decimal, is not modelled.
PyFloat(s) ==
    LET u == Unsigned(s)
        ePos == FirstOf(u, {"e", "E"})
        mant == IF ePos = 0 THEN u ELSE SubSeq(u, 1, ePos - 1)
        expo == IF ePos = 0 THEN <<>> ELSE SubSeq(u, ePos + 1, Len(u))
        dot == FirstOf(mant, {"."})
        ipart == IF dot = 0 THEN mant ELSE SubSeq(mant, 1, dot - 1)
        fpart == IF dot = 0 THEN <<>> ELSE SubSeq(mant, dot + 1, Len(mant))
        mantOk == IF dot = 0 THEN IsDigitPart(ipart)
                  ELSE /\ ipart = <<>> \/ IsDigitPart(ipart)
                       /\ fpart = <<>> \/ IsDigitPart(fpart)
                       /\ ~(ipart = <<>> /\ fpart = <<>>)
        expOk == ePos = 0 \/ IsDigitPart(Unsigned(expo))
        expVal == IF ePos = 0 THEN 0
                  ELSE SignOf(expo) * DigitsValue(Unsigned(expo), 0)
        m == DigitsValue(ipart \o fpart, 0)
    IN  IF lower(u) \in {<<"i","n","f">>, <<"i","n","f","i","n","i","t","y">>,
                         <<"n","a","n">>}
        THEN FloatSpecial(lower(s))
        ELSE IF mantOk /\ expOk
        THEN FloatValue(SignOf(s) * m, expVal - NumDigits(fpart))
        ELSE Raises

NA == <<"n","a">>
NAN == <<"n","a","n">>
TRUE_ == <<"t","r","u","e">>
FALSE_ == <<"f","a","l","s","e">>

\* to_scalar with the numeric parse chosen by trial (float() first) instead of
\* by the "." / "e" test.
to_scalar_float_first(s) ==
    LET t == strip(s)
        r == IF PyFloat(t) # Raises THEN PyFloat(t) ELSE PyInt(t)
    IN  IF t = <<>> \/ lower(t) \in {NA, NAN} THEN NoneValue
        ELSE IF lower(t) = TRUE_ THEN BoolValue(TRUE)
        ELSE IF lower(t) = FALSE_ THEN BoolValue(FALSE)
        ELSE IF r = Raises THEN StrValue(t) ELSE r

to_scalar(s) ==
    LET t == strip(s)
        r == IF Contains(t, ".") \/ Contains(lower(t), "e")
             THEN PyFloat(t) ELSE PyInt(t)
    IN  IF t = <<>> \/ lower(t) \in {NA, NAN} THEN NoneValue
        ELSE IF lower(t) = TRUE_ THEN BoolValue(TRUE)
        ELSE IF lower(t) = FALSE_ THEN BoolValue(FALSE)
        ELSE IF r = Raises THEN StrValue(t) ELSE r

(***************************************************************************)
(* _to_scalar as an operation, on every text over ScalarChars of length at *)
(* most MaxLen and on the named texts.                                     *)
(***************************************************************************)
ScalarChars == {" ", "3", "0", ".", "e", "E", "-", "n", "a", "A"}

NamedTexts == {
    <<"N","a","N">>, <<"t","r","u","e">>, <<"T","r","u","e">>, <<" ","T","R","U","E"," ">>,
    <<"f","a","l","s","e">>, <<"F","A","L","S","E">>, <<"3">>, <<"3",".","0">>,
    <<"3","e","2">>, <<"a","b","c">>, <<"1","_","0">>, <<"1","_","_","0">>,
    <<"+","7">>, <<"1","e","-","2">>, <<"i","n","f">>, <<"1",".","5","e","1">>,
    <<"t","r","u","e","1">>, <<"\t","4","2","\t">>, <<"3","e","2","e","1">> }

ScalarTexts == SeqsUpTo(ScalarChars, MaxLen) \cup NamedTexts

InitScalar ==
    /\ op = "_to_scalar" /\ pc = "start"
    /\ x \in ScalarTexts
    /\ scalar = <<>>
    /\ rows = <<>> /\ header = <<>> /\ values = <<>>
    /\ step_positions = <<>> /\ block_size = 0 /\ idx = 0
    /\ block_header = <<>> /\ records = <<>> /\ error = ""

ToScalar ==
    /\ op = "_to_scalar" /\ pc = "start"
    /\ scalar' = to_scalar(x)
    /\ pc' = "done"
    /\ UNCHANGED <<op, rows, header, values, step_positions, block_size, idx,
                   block_header, records, error, x>>

NextScalar == ToScalar

SpecScalar == InitScalar /\ [][NextScalar]_vars

(***************************************************************************)
(* Markers and the cells the enumerated headers, value rows and tables are *)
(* built from.                                                             *)
(***************************************************************************)
STEP == <<"[","s","t","e","p","]">>
REPORTER == <<"[","r","e","p","o","r","t","e","r","]">>
FINAL == <<"[","f","i","n","a","l","]">>
FINAL_VALUE == <<"[","f","i","n","a","l"," ","v","a","l","u","e","]">>
ALL_RUN_DATA == <<"[","a","l","l"," ","r","u","n"," ","d","a","t","a","]">>

BLANK == <<>>
PSTEP == <<" ","[","s","t","e","p","]"," ">>      \* a padded marker label
PFINAL == <<" ","[","f","i","n","a","l","]">>      \* a padded section marker
LX == <<"x">>
LY == <<"y">>
LA == <<"A">>
LB == <<"B">>
V1 == <<"1">>
V2 == <<"2">>
V5 == <<"5">>
V65 == <<"6",".","5">>
V10 == <<"1","0">>
V11 == <<"1","1">>
V20 == <<"2","0">>
V21 == <<"2","1">>

(***************************************************************************)
(* Slices, zip and dict assignment.                                        *)
(***************************************************************************)
\* s[a:b] for 0 <= a, 0 <= b: clipped to the length of s, empty when a >= b.
Slice(s, a, b) == SubSeq(s, Min(a, Len(s)) + 1, Min(b, Len(s)))

\* s[1:]
Rest(s) == IF s = <<>> THEN <<>> ELSE Tail(s)

\* rec[key] = v on a dict, a function from its keys.
DictSet(rec, key, v) ==
    [k \in (DOMAIN rec) \cup {key} |-> IF k = key THEN v ELSE rec[k]]

EmptyDict == <<>>

(***************************************************************************)
(* _find_row_index: the 1-based index of the first row whose first cell,   *)
(* stripped, is first_cell; 0 for None.                                    *)
(***************************************************************************)
RowMatches(row, first_cell) == row # <<>> /\ strip(row[1]) = first_cell

find_row_index(rs, first_cell) ==
    IF \E i \in 1..Len(rs) : RowMatches(rs[i], first_cell)
    THEN CHOOSE i \in 1..Len(rs) :
            /\ RowMatches(rs[i], first_cell)
            /\ \A j \in 1..(i - 1) : ~RowMatches(rs[j], first_cell)
    ELSE 0

(***************************************************************************)
(* The block layout of a header.                                           *)
(***************************************************************************)
\* [i for i, h in enumerate(header) if h.strip() == "[step]"], ascending.
StepPositions(h) ==
    SelectSeq([i \in 1..Len(h) |-> i - 1], LAMBDA p : strip(h[p + 1]) = STEP)

\* BlockSize measured between the last two offsets instead of the first two.
BlockSize_last_gap(h, sp) ==
    IF Len(sp) >= 2 THEN sp[Len(sp)] - sp[Len(sp) - 1] ELSE Len(h) - sp[1]

BlockSize(h, sp) ==
    IF Len(sp) >= 2 THEN sp[2] - sp[1] ELSE Len(h) - sp[1]

BlockEnd(start, size, h) == Min(start + size, Len(h))

\* for k, v in zip(block_header, block_values): ... rec[key] = _to_scalar(v)
RECURSIVE FillRecord(_, _, _, _)
FillRecord(rec, bh, bv, i) ==
    IF i > Min(Len(bh), Len(bv)) THEN rec
    ELSE LET key == strip(bh[i])
         IN  IF key = <<>> THEN FillRecord(rec, bh, bv, i + 1)
             ELSE FillRecord(DictSet(rec, key, to_scalar(bv[i])), bh, bv, i + 1)

\* BlockRecord keeping the first value of a repeated label instead of the last.
RECURSIVE FillRecord_first_wins(_, _, _, _)
FillRecord_first_wins(rec, bh, bv, i) ==
    IF i > Min(Len(bh), Len(bv)) THEN rec
    ELSE LET key == strip(bh[i])
         IN  IF key = <<>> \/ key \in DOMAIN rec
             THEN FillRecord_first_wins(rec, bh, bv, i + 1)
             ELSE FillRecord_first_wins(DictSet(rec, key, to_scalar(bv[i])), bh, bv, i + 1)

BlockRecord_first_wins(h, v, start, end) ==
    FillRecord_first_wins(EmptyDict, Slice(h, start, end), Slice(v, start, end), 1)

\* The record of the block [start, end) of header h and value row v.
BlockRecord(h, v, start, end) ==
    FillRecord(EmptyDict, Slice(h, start, end), Slice(v, start, end), 1)

(***************************************************************************)
(* The ValueError messages of the source.                                  *)
(***************************************************************************)
ErrNoStep == "Could not find '[step]' in header row; unsupported layout."
ErrNoFinal == "Found [reporter] but not [final]."
ErrNoValuesRow == "Found [final value] but missing values row."
ErrUnsupported == "Unsupported BehaviorSpace layout: could not find [reporter] or [final value]."
ErrNoAllRunData == "This file does not contain an [all run data] section."
ErrNoLayout == "Could not infer block layout in [all run data] section."

(***************************************************************************)
(* _parse_repeated_blocks(header, values), entered at pc = "blocks".       *)
(***************************************************************************)
BlocksStart ==
    /\ pc = "blocks"
    /\ LET sp == StepPositions(header)
       IN  IF sp = <<>>
           THEN /\ pc' = "failed"
                /\ error' = ErrNoStep
                /\ UNCHANGED <<step_positions, block_size, idx, records>>
           ELSE /\ step_positions' = sp
                /\ block_size' = BlockSize(header, sp)
                /\ idx' = 1
                /\ records' = <<>>
                /\ pc' = "loop"
                /\ error' = error
    /\ UNCHANGED <<op, rows, header, values, block_header, x, scalar>>

\* BlocksIter appending no record for a block the value row does not reach.
BlocksIter_skip_empty ==
    /\ pc = "loop"
    /\ idx <= Len(step_positions)
    /\ LET start == step_positions[idx]
           end == BlockEnd(start, block_size, header)
       IN  /\ block_header' = Slice(header, start, end)
           /\ records' = IF Slice(values, start, end) = <<>> THEN records
                         ELSE Append(records, BlockRecord(header, values, start, end))
    /\ idx' = idx + 1
    /\ UNCHANGED <<op, pc, rows, header, values, step_positions, block_size,
                   error, x, scalar>>

BlocksIter ==
    /\ pc = "loop"
    /\ idx <= Len(step_positions)
    /\ LET start == step_positions[idx]
           end == BlockEnd(start, block_size, header)
       IN  /\ block_header' = Slice(header, start, end)
           /\ records' = Append(records, BlockRecord(header, values, start, end))
    /\ idx' = idx + 1
    /\ UNCHANGED <<op, pc, rows, header, values, step_positions, block_size,
                   error, x, scalar>>

BlocksReturn ==
    /\ pc = "loop"
    /\ idx > Len(step_positions)
    /\ pc' = "done"
    /\ UNCHANGED <<op, rows, header, values, step_positions, block_size, idx,
                   block_header, records, error, x, scalar>>

(***************************************************************************)
(* parse_final: the choice of the layout, then _parse_repeated_blocks.     *)
(***************************************************************************)
Fail(msg) ==
    /\ pc' = "failed"
    /\ error' = msg
    /\ UNCHANGED <<header, values>>

CallBlocks(h, v) ==
    /\ header' = h
    /\ values' = v
    /\ pc' = "blocks"
    /\ error' = error

\* DropLeadingBlank keeping the leading blank cell.
DropLeadingBlank_keep(row) == row

\* values_row[1:] if values_row and values_row[0].strip() == "" else values_row
DropLeadingBlank(row) ==
    IF row # <<>> /\ strip(row[1]) = <<>> THEN Rest(row) ELSE row

\* FinalValueBranch reading an [all run data] header when there is no
\* [final value] row, instead of raising.
FinalValueBranch_any_section ==
    LET i_fv == find_row_index(rows, FINAL_VALUE)
        i_all == find_row_index(rows, ALL_RUN_DATA)
    IN  IF i_fv # 0
        THEN IF i_fv + 1 > Len(rows)
             THEN Fail(ErrNoValuesRow)
             ELSE CallBlocks(Rest(rows[i_fv]), DropLeadingBlank(rows[i_fv + 1]))
        ELSE IF i_all # 0 /\ i_all + 1 <= Len(rows)
             THEN CallBlocks(Rest(rows[i_all]), DropLeadingBlank(rows[i_all + 1]))
             ELSE Fail(ErrUnsupported)

FinalValueBranch ==
    LET i_fv == find_row_index(rows, FINAL_VALUE)
    IN  IF i_fv # 0
        THEN IF i_fv + 1 > Len(rows)
             THEN Fail(ErrNoValuesRow)
             ELSE CallBlocks(Rest(rows[i_fv]), DropLeadingBlank(rows[i_fv + 1]))
        ELSE Fail(ErrUnsupported)

\* ReporterBranch falling back to the [final value] layout when there is no
\* [final] row, instead of raising.
ReporterBranch_fallback(i_rep) ==
    LET i_final == find_row_index(rows, FINAL)
    IN  IF i_final = 0
        THEN FinalValueBranch
        ELSE CallBlocks(Rest(rows[i_rep]), Rest(rows[i_final]))

ReporterBranch(i_rep) ==
    LET i_final == find_row_index(rows, FINAL)
    IN  IF i_final = 0
        THEN Fail(ErrNoFinal)
        ELSE CallBlocks(Rest(rows[i_rep]), Rest(rows[i_final]))

parse_final ==
    /\ op = "parse_final" /\ pc = "start"
    /\ LET i_rep == find_row_index(rows, REPORTER)
       IN  IF i_rep # 0 THEN ReporterBranch(i_rep) ELSE FinalValueBranch
    /\ UNCHANGED <<op, rows, step_positions, block_size, idx, block_header,
                   records, x, scalar>>

(***************************************************************************)
(* parse_all_run_data: the header, then one step per row that follows it.  *)
(***************************************************************************)
parse_all_run_data ==
    /\ op = "parse_all_run_data" /\ pc = "start"
    /\ LET i_all == find_row_index(rows, ALL_RUN_DATA)
           h == Rest(rows[i_all])
           sp == StepPositions(h)
       IN  IF i_all = 0
           THEN /\ pc' = "failed" /\ error' = ErrNoAllRunData
                /\ UNCHANGED <<header, step_positions, block_size, idx>>
           ELSE IF sp = <<>>
           THEN /\ pc' = "failed" /\ error' = ErrNoLayout
                /\ header' = h
                /\ UNCHANGED <<step_positions, block_size, idx>>
           ELSE /\ header' = h
                /\ step_positions' = sp
                /\ block_size' = BlockSize(h, sp)
                /\ idx' = i_all + 1
                /\ pc' = "rows"
                /\ error' = error
    /\ UNCHANGED <<op, rows, values, block_header, records, x, scalar>>

\* IsSectionRow testing the first cell as stored, not stripped.
IsSectionRow_no_strip(r) == startswith(r[1], "[") /\ r[1] # <<>>

\* r[0].strip().startswith("[") and r[0].strip() != ""
IsSectionRow(r) == startswith(strip(r[1]), "[") /\ strip(r[1]) # <<>>

\* RowRecords cutting only the first block of the row.
RowRecords_first_block(h, v, sp, size) ==
    [i \in 1..1 |-> BlockRecord(h, v, sp[i], BlockEnd(sp[i], size, h))]

\* The records of one value row: one per start offset, in ascending order.
RowRecords(h, v, sp, size) ==
    [i \in 1..Len(sp) |-> BlockRecord(h, v, sp[i], BlockEnd(sp[i], size, h))]

AllRow ==
    /\ pc = "rows"
    /\ idx <= Len(rows)
    /\ LET r == rows[idx]
       IN  IF r = <<>>
           THEN /\ idx' = idx + 1
                /\ UNCHANGED <<pc, values, records>>
           ELSE IF IsSectionRow(r)
           THEN /\ pc' = "done"
                /\ UNCHANGED <<idx, values, records>>
           ELSE /\ values' = DropLeadingBlank(r)
                /\ records' = records \o
                      RowRecords(header, values', step_positions, block_size)
                /\ idx' = idx + 1
                /\ pc' = pc
    /\ UNCHANGED <<op, rows, header, step_positions, block_size, block_header,
                   error, x, scalar>>

AllReturn ==
    /\ pc = "rows"
    /\ idx > Len(rows)
    /\ pc' = "done"
    /\ UNCHANGED <<op, rows, header, values, step_positions, block_size, idx,
                   block_header, records, error, x, scalar>>

(***************************************************************************)
(* The inputs enumerated.                                                  *)
(***************************************************************************)
HeaderCells == {STEP, PSTEP, LX, BLANK}
ValueCells == {V1, V65}

Headers == SeqsUpTo(HeaderCells, MaxHeader)

\* Tables of any shape over a pool of rows: every marker, a padded marker, an
\* empty row, value rows with and without the leading blank cell.
RowPool == {
    <<REPORTER, STEP, LX>>,
    <<FINAL, V1, V2>>,
    <<FINAL_VALUE, PSTEP, LY, STEP>>,
    <<ALL_RUN_DATA, STEP, LX, STEP, LX>>,
    <<BLANK, V1, V2, V5>>,
    <<V1, V2>>,
    <<>>,
    <<PFINAL, V5>> }

PoolTables == SeqsUpTo(RowPool, MaxRows)

\* A header row of every content and a value row of every length, per layout.
PairTables ==
    UNION { { << <<REPORTER>> \o h, <<FINAL>> \o v >>,
              << <<FINAL_VALUE>> \o h, <<BLANK>> \o v >>,
              << <<ALL_RUN_DATA>> \o h, <<BLANK>> \o v >> } :
            h \in Headers, v \in SeqsUpTo({V1}, MaxValues) }

\* The worked examples.
FV_AB_Blank == << <<FINAL_VALUE, LA, LB>>, <<BLANK, V5, V65>> >>
FV_AB_NoBlank == << <<FINAL_VALUE, LA, LB>>, <<V5, V65>> >>
FV_StepAB_Blank == << <<FINAL_VALUE, STEP, LA, LB>>, <<BLANK, V1, V5, V65>> >>
FV_StepAB_NoBlank == << <<FINAL_VALUE, STEP, LA, LB>>, <<V1, V5, V65>> >>
RF_TwoRuns == << <<REPORTER, STEP, LX, LY, STEP, LX, LY>>,
                 <<FINAL, V1, V10, V20, V2, V11, V21>> >>
ARD_TwoRuns == << <<ALL_RUN_DATA, STEP, LX, LY, STEP, LX, LY>>,
                  <<BLANK, V1, V10, V20, V2, V11, V21>> >>

ExampleTables == {FV_AB_Blank, FV_AB_NoBlank, FV_StepAB_Blank, FV_StepAB_NoBlank,
                  RF_TwoRuns, ARD_TwoRuns}

Tables == PoolTables \cup PairTables \cup ExampleTables

Init ==
    /\ op \in {"parse_final", "parse_all_run_data"}
    /\ pc = "start"
    /\ rows \in Tables
    /\ header = <<>> /\ values = <<>>
    /\ step_positions = <<>> /\ block_size = 0 /\ idx = 0
    /\ block_header = <<>> /\ records = <<>> /\ error = ""
    /\ x = <<>> /\ scalar = <<>>

Next ==
    \/ parse_final
    \/ BlocksStart
    \/ BlocksIter
    \/ BlocksReturn
    \/ parse_all_run_data
    \/ AllRow
    \/ AllReturn

Spec == Init /\ [][Next]_vars

InitBlocks ==
    /\ op = "_parse_repeated_blocks"
    /\ pc = "blocks"
    /\ header \in Headers
    /\ values \in SeqsUpTo(ValueCells, MaxValues)
    /\ rows = <<>>
    /\ step_positions = <<>> /\ block_size = 0 /\ idx = 0
    /\ block_header = <<>> /\ records = <<>> /\ error = ""
    /\ x = <<>> /\ scalar = <<>>

NextBlocks ==
    \/ BlocksStart
    \/ BlocksIter
    \/ BlocksReturn

SpecBlocks == InitBlocks /\ [][NextBlocks]_vars

(***************************************************************************)
(* Vocabulary of the properties, defined on the inputs alone.              *)
(***************************************************************************)
RowsWith(m) == {i \in 1..Len(rows) : rows[i] # <<>> /\ strip(rows[i][1]) = m}
HasRow(m) == RowsWith(m) # {}
FirstRow(m) == CHOOSE i \in RowsWith(m) : \A j \in RowsWith(m) : i <= j

\* The 0-based offsets of the "[step]" labels of a header.
StepSet(h) == {p \in 0..(Len(h) - 1) : strip(h[p + 1]) = STEP}
\* The k-th smallest element of a set of numbers.
Nth(S, k) == CHOOSE e \in S : Cardinality({y \in S : y < e}) = k - 1
\* The inferred width: the distance between the first two offsets, or the rest
\* of the header after the only one.
InferredWidth(h) ==
    IF Cardinality(StepSet(h)) >= 2
    THEN Nth(StepSet(h), 2) - Nth(StepSet(h), 1)
    ELSE Len(h) - Nth(StepSet(h), 1)

Returned == pc = "done"
Raised == pc = "failed"

RecAB == [k \in {LA, LB} |-> IF k = LA THEN IntValue(5) ELSE FloatValue(65, -1)]
RecStepAB == [k \in {STEP, LA, LB} |->
                IF k = STEP THEN IntValue(1)
                ELSE IF k = LA THEN IntValue(5) ELSE FloatValue(65, -1)]

(***************************************************************************)
(* C1 as stated: parse_final on the section `[final value],A,B` with the   *)
(* value cells 5, 6.5 (with or without a leading blank cell) returns       *)
(* exactly the record {A: 5, B: 6.5}.                                      *)
(***************************************************************************)
C1_Original ==
    (op = "parse_final" /\ rows \in {FV_AB_Blank, FV_AB_NoBlank}
        /\ pc \in {"done", "failed"})
    => (Returned /\ records = <<RecAB>>)

(***************************************************************************)
(* C1 amended: a [final value] header needs a "[step]" label.  On header   *)
(* `[final value],A,B` parse_final raises the "[step]" ValueError whatever *)
(* the value row; on header `[final value],[step],A,B` with value cells    *)
(* 1, 5, 6.5 it returns exactly one record {[step]: 1, A: 5, B: 6.5}, the  *)
(* same with and without a leading blank cell in the value row; and no     *)
(* call that took the [final value] layout returns without a "[step]"      *)
(* label in that header.                                                   *)
(***************************************************************************)
C1_Amended ==
    /\ (op = "parse_final" /\ rows \in {FV_AB_Blank, FV_AB_NoBlank})
         => /\ ~Returned
            /\ pc \in {"loop", "failed"} => (Raised /\ error = ErrNoStep)
    /\ (op = "parse_final" /\ rows \in {FV_StepAB_Blank, FV_StepAB_NoBlank})
         => /\ ~Raised
            /\ Returned => records = <<RecStepAB>>
    /\ (op = "parse_final" /\ ~HasRow(REPORTER) /\ Returned)
         => /\ HasRow(FINAL_VALUE)
            /\ StepSet(Rest(rows[FirstRow(FINAL_VALUE)])) # {}

C1_Witness ==
    /\ op = "parse_final" /\ rows = FV_StepAB_Blank
    /\ Returned /\ Len(records) = 1

(***************************************************************************)
(* C2: when a row with first cell [reporter] exists, parse_final returns a *)
(* table only if a [final] row lies after a [reporter] row.                *)
(***************************************************************************)
C2_FinalAfterReporter ==
    (op = "parse_final" /\ HasRow(REPORTER) /\ Returned)
    => \E i \in RowsWith(REPORTER) : \E j \in RowsWith(FINAL) : i < j

C4_OwnMarkerRequired ==
    /\ (op = "parse_final" /\ ~HasRow(REPORTER) /\ ~HasRow(FINAL_VALUE))
         => /\ pc \in {"start", "failed"}
            /\ Raised => error = ErrUnsupported
    /\ (op = "parse_all_run_data" /\ ~HasRow(ALL_RUN_DATA))
         => /\ pc \in {"start", "failed"}
            /\ Raised => error = ErrNoAllRunData

C4_Witness ==
    /\ op = "parse_final" /\ Raised /\ error = ErrUnsupported
    /\ HasRow(ALL_RUN_DATA)
    /\ StepSet(Rest(rows[FirstRow(ALL_RUN_DATA)])) # {}
    /\ Len(rows) >= 2

(***************************************************************************)
(* C5: parse_all_run_data stops at the first row after the header whose    *)
(* stripped first cell begins with "[": the records returned are exactly   *)
(* those of the rows between the header and that row, and the call         *)
(* returns.                                                                *)
(***************************************************************************)
\* The first row after row i that opens a section; Len(rows) + 1 when none does.
SectionRows(i) == {j \in (i + 1)..Len(rows) :
                     rows[j] # <<>> /\ startswith(strip(rows[j][1]), "[")}
StopRow(i) == IF SectionRows(i) = {} THEN Len(rows) + 1
              ELSE CHOOSE j \in SectionRows(i) : \A k \in SectionRows(i) : j <= k

\* The records of the rows a..b, in row order.
RECURSIVE RecordsOfRows(_, _, _)
RecordsOfRows(h, a, b) ==
    IF a > b THEN <<>>
    ELSE (IF rows[a] = <<>> THEN <<>>
          ELSE RowRecords(h, DropLeadingBlank(rows[a]), StepPositions(h),
                          InferredWidth(h)))
         \o RecordsOfRows(h, a + 1, b)

C5_StopsAtSection ==
    (op = "parse_all_run_data" /\ HasRow(ALL_RUN_DATA))
    => LET i_all == FirstRow(ALL_RUN_DATA)
           h == Rest(rows[i_all])
       IN  /\ StepSet(h) # {} => ~Raised
           /\ pc = "rows" => idx <= StopRow(i_all)
           /\ Returned =>
                /\ idx = StopRow(i_all)
                /\ records = RecordsOfRows(h, i_all + 1, StopRow(i_all) - 1)

C5_Witness ==
    /\ op = "parse_all_run_data" /\ Returned
    /\ records # <<>>
    /\ idx < Len(rows)
    /\ rows[idx + 1] # <<>>
    /\ ~startswith(strip(rows[idx + 1][1]), "[")
    /\ strip(rows[idx][1]) # rows[idx][1]

(***************************************************************************)
(* C6: _to_scalar never raises and decides in a fixed order on the         *)
(* stripped text: empty, na, nan give None; true, false give a bool; a     *)
(* text with "." or "e"/"E" goes to float(); any other to int(); a failed  *)
(* parse gives the stripped text.  A text with neither "." nor "e"/"E" is  *)
(* never a float.                                                          *)
(***************************************************************************)
Txt3 == <<"3">>
Txt30 == <<"3",".","0">>
Txt3e2 == <<"3","e","2">>
TxtAbc == <<"a","b","c">>

C6_DecisionOrder ==
    (op = "_to_scalar" /\ Returned)
    => LET t == strip(x)
           numeric == Contains(t, ".") \/ Contains(t, "e") \/ Contains(t, "E")
       IN  /\ scalar.type \in {"NoneType", "bool", "int", "float", "str"}
           /\ IF t = <<>> \/ lower(t) \in {NA, NAN} THEN scalar = NoneValue
              ELSE IF lower(t) \in {TRUE_, FALSE_}
              THEN scalar = BoolValue(lower(t) = TRUE_)
              ELSE IF numeric
              THEN /\ scalar.type \in {"float", "str"}
                   /\ scalar.type = "float" <=> PyFloat(t) # Raises
                   /\ scalar.type = "float" => scalar = PyFloat(t)
              ELSE /\ scalar.type \in {"int", "str"}
                   /\ scalar.type = "int" <=> PyInt(t) # Raises
                   /\ scalar.type = "int" => scalar = PyInt(t)
           /\ scalar.type = "str" => scalar.s = t
           /\ x = Txt3 => scalar = [type |-> "int", n |-> 3]
           /\ x = Txt30 => scalar = [type |-> "float", d |-> [m |-> 3, e |-> 0]]
           /\ x = Txt3e2 => scalar = [type |-> "float", d |-> [m |-> 3, e |-> 2]]
           /\ x = TxtAbc => scalar = [type |-> "str", s |-> TxtAbc]

C6_Witness ==
    /\ op = "_to_scalar" /\ Returned
    /\ x = <<" ", "3", "e">>
    /\ scalar = [type |-> "str", s |-> <<"3", "e">>]

(***************************************************************************)
(* C7 as stated: every block's header slice has exactly the inferred       *)
(* width.                                                                  *)
(***************************************************************************)
C7_Original ==
    (op = "_parse_repeated_blocks" /\ pc = "loop" /\ idx > 1)
    => Len(block_header) = InferredWidth(header)

(***************************************************************************)
(* C7 amended: every block's header slice is the inferred width clipped to *)
(* the end of the header, min(width, header length - start): exactly the   *)
(* inferred width for the first block and for every block that ends inside *)
(* the header, narrower for a block the header cuts short.                 *)
(***************************************************************************)
C7_Amended ==
    (op = "_parse_repeated_blocks" /\ pc = "loop" /\ idx > 1)
    => LET w == InferredWidth(header)
           start == Nth(StepSet(header), idx - 1)
       IN  /\ w >= 1
           /\ Len(block_header) = Min(w, Len(header) - start)
           /\ block_header = [i \in 1..Min(w, Len(header) - start) |->
                                header[start + i]]
           /\ idx - 1 = 1 => Len(block_header) = w

C7_Witness ==
    /\ op = "_parse_repeated_blocks" /\ pc = "loop" /\ idx > 2
    /\ Len(block_header) < InferredWidth(header)
    /\ Len(block_header) >= 1

(***************************************************************************)
(* C8: the record of the block at offset s holds exactly the stripped,     *)
(* non-blank labels at the positions p, s <= p < min(s + w, header length) *)
(* and p < value-row length, each with the coerced value cell at p, the    *)
(* rightmost p when a label repeats in the block.                          *)
(***************************************************************************)
BlockPositions(h, v, s) ==
    {p \in s..(Min(s + InferredWidth(h), Len(h)) - 1) :
        p < Len(v) /\ strip(h[p + 1]) # <<>>}

C8_RecordContent ==
    (op = "_parse_repeated_blocks" /\ pc \in {"loop", "done"})
    => \A k \in 1..Len(records) :
         LET P == BlockPositions(header, values, Nth(StepSet(header), k))
         IN  /\ DOMAIN records[k] = {strip(header[p + 1]) : p \in P}
             /\ \A p \in P :
                  (\A q \in P : strip(header[q + 1]) = strip(header[p + 1]) => q <= p)
                  => records[k][strip(header[p + 1])] = to_scalar(values[p + 1])

C8_Witness ==
    /\ op = "_parse_repeated_blocks" /\ Returned
    /\ Len(values) < Len(header)
    /\ \E k \in 1..Len(records) :
         LET s == Nth(StepSet(header), k)
             P == BlockPositions(header, values, s)
         IN  /\ \E p, q \in P : /\ p < q
                                /\ strip(header[p + 1]) = strip(header[q + 1])
                                /\ values[p + 1] # values[q + 1]
             /\ \E p \in s..(Min(s + InferredWidth(header), Len(header)) - 1) :
                  strip(header[p + 1]) = <<>>

(***************************************************************************)
(* C9: parse_all_run_data returns one record per (value row, block): the   *)
(* number of non-empty rows between the header and the section row (or the *)
(* end) times the number of "[step]" labels, in row order and, within a    *)
(* row, in ascending start offset.                                         *)
(***************************************************************************)
ValueRows(i) == {j \in (i + 1)..(StopRow(i) - 1) : rows[j] # <<>>}

C10_ReporterPriority ==
    (op = "parse_final" /\ pc # "start")
    => IF HasRow(REPORTER)
       THEN IF HasRow(FINAL)
            THEN /\ header = Rest(rows[FirstRow(REPORTER)])
                 /\ values = Rest(rows[FirstRow(FINAL)])
                 /\ error \in {"", ErrNoStep}
            ELSE Raised /\ error = ErrNoFinal /\ records = <<>>
       ELSE (HasRow(FINAL_VALUE) /\ ~Raised)
             => header = Rest(rows[FirstRow(FINAL_VALUE)])

C10_Witness ==
    /\ op = "parse_final" /\ Returned
    /\ HasRow(REPORTER) /\ HasRow(FINAL_VALUE) /\ HasRow(FINAL)
    /\ FirstRow(FINAL_VALUE) < FirstRow(REPORTER)
    /\ FirstRow(REPORTER) < FirstRow(FINAL)
    /\ Rest(rows[FirstRow(FINAL_VALUE)]) # header

====
